---- MODULE Spec2Model ----
(***************************************************************************)
(* Label Generator (src/main.py): greedy word wrap of the description,     *)
(* composition of the label image, auto-fit of the label size and tiling   *)
(* of the label on a page, as an on-screen preview and as a PDF.           *)
(*                                                                         *)
(* Text is a sequence of one-character strings.  Lengths of the page       *)
(* layout are integers in hundredths of a millimetre (the step of the      *)
(* sidebar's number inputs); the source's float arithmetic is modelled by  *)
(* exact rational arithmetic, and the two places where a float result can  *)
(* differ from the exact one by a whole step (floor division of an exact   *)
(* multiple, rounding of an exact tie) take the outcome as a parameter.    *)
(***************************************************************************)
EXTENDS Integers, Sequences, FiniteSets

VARIABLES
    wrap_text,        \* the text handed to wrap_text_to_width
    wrap_font,        \* the font handed to wrap_text_to_width
    wrap_lines,       \* the lines returned, per pixel budget tried so far
    code_input,       \* sidebar: "Input Kode"
    description_value,\* sidebar: "Description"
    desc_settings,    \* sidebar: position, font size, spacing barcode -> desc
    barcode_type,     \* sidebar: "Jenis Barcode"
    layout,           \* sidebar: label and page options, margins, padding, spacing
    float_outcome,    \* how the inexact float operations fall for these inputs
    session_state,    \* st.session_state: its "label_img" entry, or NoImage
    run               \* what the last run of the script showed

vars == <<wrap_text, wrap_font, wrap_lines, code_input, description_value,
          desc_settings, barcode_type, layout, float_outcome, session_state, run>>

wrap_vars == <<wrap_text, wrap_font, wrap_lines>>
ui_vars == <<code_input, description_value, desc_settings, barcode_type, layout,
            float_outcome, session_state, run>>

\* ------------------------------------------------------------------ bounds

\* longest enumerated text, in characters
MaxLen == 5
\* largest pixel budget tried by the wrap specification
MaxBudget == 5
\* how many budgets one text is wrapped at
MaxRuns == 2

\* ------------------------------------------------------------------ helpers

Max(a, b) == IF a >= b THEN a ELSE b
Min(a, b) == IF a <= b THEN a ELSE b

\* Python's a // b on integers: the floor of a / b, for either sign of b.
FloorDiv(a, b) == IF b > 0 THEN a \div b ELSE (0 - a) \div (0 - b)

\* Python's round() of the exact quotient n / d, d > 0: half to even.
RoundHalfEven(n, d) ==
    LET q == n \div d
        r == n % d
    IN  IF 2 * r < d THEN q
        ELSE IF 2 * r > d THEN q + 1
        ELSE IF q % 2 = 0 THEN q ELSE q + 1

RECURSIVE SeqsUpTo(_, _)
\* every sequence over S of length at most n
SeqsUpTo(S, n) ==
    IF n = 0 THEN {<<>>}
    ELSE LET shorter == SeqsUpTo(S, n - 1)
         IN  shorter \cup {Append(s, x) : s \in shorter, x \in S}

\* ------------------------------------------------------------------ text

Whitespace == {" "}

RECURSIVE split_from(_, _, _)
split_from(s, cur, acc) ==
    IF s = <<>> THEN (IF cur = <<>> THEN acc ELSE Append(acc, cur))
    ELSE IF Head(s) \in Whitespace
         THEN split_from(Tail(s), <<>>, IF cur = <<>> THEN acc ELSE Append(acc, cur))
         ELSE split_from(Tail(s), Append(cur, Head(s)), acc)

\* str.split(): the maximal runs of non-whitespace characters, in order
split(text) == split_from(text, <<>>, <<>>)

RECURSIVE join(_, _)
\* sep.join(parts)
join(sep, parts) ==
    IF parts = <<>> THEN <<>>
    ELSE IF Len(parts) = 1 THEN parts[1]
    ELSE parts[1] \o sep \o join(sep, Tail(parts))

RECURSIVE lstrip(_)
lstrip(s) == IF s # <<>> /\ Head(s) \in Whitespace THEN lstrip(Tail(s)) ELSE s

RECURSIVE rstrip(_)
rstrip(s) ==
    IF s # <<>> /\ s[Len(s)] \in Whitespace THEN rstrip(SubSeq(s, 1, Len(s) - 1)) ELSE s

\* str.strip()
strip(s) == rstrip(lstrip(s))

\* The font's advance width of a character, in units of the font size.
GlyphUnits(ch) == IF ch = "W" THEN 2 ELSE 1

RECURSIVE text_units(_)
text_units(text) ==
    IF text = <<>> THEN 0 ELSE GlyphUnits(Head(text)) + text_units(Tail(text))

\* draw.textlength(text, font): the advance widths of the characters, summed
safe_text_width(font, text) == font * text_units(text)

\* font.getbbox("A"): the height of a capital, the font size
safe_text_height(font) == font

\* ------------------------------------------------------------------ text wrap

fits_reversed(font, test, max_width_px) == safe_text_width(font, test) >= max_width_px

fits_last_word(font, test, max_width_px) ==
    LET ws == split(test)
    IN  safe_text_width(font, ws[Len(ws)]) <= max_width_px

\* line 111: the test of the wrap loop
fits(font, test, max_width_px) == safe_text_width(font, test) <= max_width_px

commit_forgotten(lines, current) == lines

\* lines 114 and 117: lines.append(current)
commit(lines, current) == Append(lines, current)

RECURSIVE wrap_loop(_, _, _, _, _)
\* lines 109-117: the loop over words[1:], then the last line
wrap_loop(font, words, current, lines, max_width_px) ==
    IF words = <<>> THEN commit(lines, current)
    ELSE LET w == Head(words)
             test == current \o <<" ">> \o w
         IN  IF fits(font, test, max_width_px)
             THEN wrap_loop(font, Tail(words), test, lines, max_width_px)
             ELSE wrap_loop(font, Tail(words), w, commit(lines, current), max_width_px)

wrap_text_to_width(font, text, max_width_px) ==
    LET words == split(text)
    IN  IF words = <<>> THEN <<>>
        ELSE wrap_loop(font, Tail(words), Head(words), <<>>, max_width_px)

\* ------------------------------------------------------------------ symbols

NoImage == [kind |-> "none"]

\* lines 56-68: the image the barcode library returns for a code.  Its pixel
\* size is the library's: a QR symbol is square, a Code128 symbol grows wider
\* with the code and keeps its height.
SymbolSizes(btype) ==
    IF btype = "QR" THEN {<<290, 290>>}
    ELSE {<<318, 280>>, <<3360, 280>>}

generate_symbol(btype, data, size) ==
    [kind |-> btype, data |-> data, width |-> size[1], height |-> size[2]]

\* ------------------------------------------------------------------ compose

\* line 41: load_font(size); a font is its size in pixels
load_font(size) == size

RECURSIVE widest(_, _)
\* max((safe_text_width(draw_tmp, font, ln) for ln in lines), default=0)
widest(font, lines) ==
    IF lines = <<>> THEN 0
    ELSE Max(safe_text_width(font, Head(lines)), widest(font, Tail(lines)))

\* lines 136-141: the symbol, scaled down to the target width when wider
resize_barcode(barcode_img, target_barcode_width_px) ==
    IF barcode_img.width > target_barcode_width_px
    THEN [barcode_img EXCEPT
            !.width = target_barcode_width_px,
            !.height = (barcode_img.height * target_barcode_width_px) \div barcode_img.width]
    ELSE barcode_img

\* The composed image: the symbol it shows, the lines of text drawn on it and
\* its pixel size.
compose_label_image_wrapped(barcode_img, description, spacing_px, font_size, position) ==
    LET desc == join(<<" ">>, split(description))
        font == load_font(font_size)
        bc == resize_barcode(barcode_img, 420)
        bw == bc.width
        bh == bc.height
        wrap_width == IF position = "Bottom" THEN (bw * 95) \div 100 ELSE (bw * 7) \div 10
        lines == IF desc # <<>> THEN wrap_text_to_width(font, desc, wrap_width) ELSE <<>>
        line_h == safe_text_height(font)
        desc_h == Len(lines) * (line_h + 2)
        desc_w == widest(font, lines)
        pad == 8
    IN  IF position = "Bottom"
        THEN [kind |-> "label", symbol |-> bc, lines |-> lines,
              width |-> Max(bw, desc_w) + pad * 2,
              height |-> bh + desc_h + spacing_px + pad * 2]
        ELSE [kind |-> "label", symbol |-> bc, lines |-> lines,
              width |-> bw + spacing_px + desc_w + pad * 2,
              height |-> Max(bh, desc_h) + pad * 2]

\* ------------------------------------------------------------------ auto-fit

\* line 23: PX_PER_MM = 96.0 / 25.4, so a pixel is 127/480 mm.  Auto-fit
\* computes in units of 1/2400 mm: a hundredth of a millimetre is 24 units and
\* a pixel is 635 units.
UnitsPerCmm == 24
UnitsPerPx == 635

\* round(x, 1) of x = n units: to a tenth of a millimetre, in hundredths.  A
\* value exactly halfway goes the way its float happens to lie: tie_up.
round_tenth(n, tie_up) ==
    LET d == 10 * UnitsPerCmm
        q == n \div d
        r == n % d
    IN  10 * (IF 2 * r < d THEN q ELSE IF 2 * r > d THEN q + 1 ELSE q + tie_up)

clamp_no_floor(size, usable, spacing_mm) ==
    Min(size, usable - spacing_mm * UnitsPerCmm)

\* lines 198-199: min(size, max(5, usable - spacing_mm)), in units
clamp_axis(size, usable, spacing_mm) ==
    Min(size, Max(5 * 100 * UnitsPerCmm, usable - spacing_mm * UnitsPerCmm))

compute_label_mm_from_composed(img, paper_mm, margins, spacing_mm, orientation, tie) ==
    LET w0 == img.width * UnitsPerPx + 4 * 100 * UnitsPerCmm
        h0 == img.height * UnitsPerPx + 4 * 100 * UnitsPerCmm
        w_mm == IF orientation = "Landscape" THEN h0 ELSE w0
        h_mm == IF orientation = "Landscape" THEN w0 ELSE h0
        usable_w == (paper_mm[1] - margins.left - margins.right) * UnitsPerCmm
        usable_h == (paper_mm[2] - margins.top - margins.bottom) * UnitsPerCmm
    IN  <<round_tenth(clamp_axis(w_mm, usable_w, spacing_mm), tie.w),
          round_tenth(clamp_axis(h_mm, usable_h, spacing_mm), tie.h)>>

\* ------------------------------------------------------------------ tiling

\* millimetres, in hundredths
Mm(x) == 100 * x

\* lines 376-377: the margins and the padding, by side
Sides(top, bottom, left, right) ==
    [top |-> top, bottom |-> bottom, left |-> left, right |-> right]

NotRun == [status |-> "none"]
Raised(what) == [status |-> what]

\* The float floor division a // b of line 228: the floor of the exact quotient,
\* except that a float quotient of an exact multiple may fall just below the
\* whole number and floor to one less (slack = 1).
FloatFloorDiv(a, b, slack) ==
    IF a % (IF b > 0 THEN b ELSE 0 - b) = 0 THEN FloorDiv(a, b) - slack ELSE FloorDiv(a, b)

\* line 232: the bottom edge of the first row's cells, up from the page bottom
pdf_start_y(ph, m, lh) == ph - m.top - lh

pdf_row_y_upward(start_y, r, lh, spacing) == start_y + r * (lh + spacing)

\* line 237: the bottom edge of row r's cells
pdf_row_y(start_y, r, lh, spacing) == start_y - r * (lh + spacing)

\* lines 228-229, 277-278: max(1, ...)
grid_count(quotient) == Max(1, quotient)

\* Lengths stay in hundredths of a millimetre: the source multiplies every one
\* of them by the same factor mm_unit (points per millimetre).
generate_pdf(label_img, label_mm, paper_mm, margins_mm, spacing_mm, padding_mm, label_orientation, page_landscape, slack) ==
    LET lw == IF label_orientation = "Landscape" THEN label_mm[2] ELSE label_mm[1]
        lh == IF label_orientation = "Landscape" THEN label_mm[1] ELSE label_mm[2]
        pw == IF page_landscape THEN paper_mm[2] ELSE paper_mm[1]
        ph == IF page_landscape THEN paper_mm[1] ELSE paper_mm[2]
        m == margins_mm
        p == padding_mm
        usable_w == pw - m.left - m.right
        usable_h == ph - m.top - m.bottom
    IN  IF lw + spacing_mm = 0 \/ lh + spacing_mm = 0 THEN Raised("ZeroDivisionError")
        ELSE
        LET cols == grid_count(FloatFloorDiv(usable_w + spacing_mm, lw + spacing_mm, slack.cols))
            rows == grid_count(FloatFloorDiv(usable_h + spacing_mm, lh + spacing_mm, slack.rows))
            start_x == m.left
            start_y == pdf_start_y(ph, m, lh)
        IN  [status |-> "done", cols |-> cols, rows |-> rows,
             pagesize |-> <<pw, ph>>, label |-> <<lw, lh>>, image |-> label_img,
             cells |-> {[r |-> r, c |-> c,
                         x |-> start_x + c * (lw + spacing_mm),
                         y |-> pdf_row_y(start_y, r, lh, spacing_mm),
                         img_x |-> start_x + c * (lw + spacing_mm) + p.left,
                         img_y |-> pdf_row_y(start_y, r, lh, spacing_mm) + p.bottom,
                         img_w |-> lw - (p.left + p.right),
                         img_h |-> lh - (p.top + p.bottom)]
                        : r \in 0 .. rows - 1, c \in 0 .. cols - 1}]

\* lines 259-260: the preview's pixels per millimetre, as a fraction <<n, d>>
\* of pixels per hundredth of a millimetre
preview_scale(pw, ph, max_px) ==
    LET longest == Max(pw, ph)
    IN  IF max_px * 100 < 2 * longest THEN <<2, 100>>
        ELSE IF max_px * 100 > 12 * longest THEN <<12, 100>>
        ELSE <<max_px, longest>>

\* line 262: int(round(mm * scale))
mm_to_px(mm, scale) == RoundHalfEven(mm * scale[1], scale[2])

generate_pdf_preview(label_img, label_mm, paper_mm, margins_mm, spacing_mm, padding_mm, label_orientation, max_px, page_landscape) ==
    LET lw == IF label_orientation = "Landscape" THEN label_mm[2] ELSE label_mm[1]
        lh == IF label_orientation = "Landscape" THEN label_mm[1] ELSE label_mm[2]
        pw == IF page_landscape THEN paper_mm[2] ELSE paper_mm[1]
        ph == IF page_landscape THEN paper_mm[1] ELSE paper_mm[2]
        scale == preview_scale(pw, ph, max_px)
        pw_px == mm_to_px(pw, scale)
        ph_px == mm_to_px(ph, scale)
        lw_px == mm_to_px(lw, scale)
        lh_px == mm_to_px(lh, scale)
        mt == mm_to_px(margins_mm.top, scale)
        mb == mm_to_px(margins_mm.bottom, scale)
        ml == mm_to_px(margins_mm.left, scale)
        mr == mm_to_px(margins_mm.right, scale)
        pt == mm_to_px(padding_mm.top, scale)
        pb == mm_to_px(padding_mm.bottom, scale)
        pl == mm_to_px(padding_mm.left, scale)
        pr == mm_to_px(padding_mm.right, scale)
        sp == mm_to_px(spacing_mm, scale)
        usable_w == pw_px - ml - mr
        usable_h == ph_px - mt - mb
    IN  IF lw_px + sp = 0 \/ lh_px + sp = 0 THEN Raised("ZeroDivisionError")
        ELSE
        LET cols == grid_count(FloorDiv(usable_w + sp, lw_px + sp))
            rows == grid_count(FloorDiv(usable_h + sp, lh_px + sp))
        IN  [status |-> "done", cols |-> cols, rows |-> rows,
             size |-> <<pw_px, ph_px>>, label |-> <<lw_px, lh_px>>,
             margin |-> Sides(mt, mb, ml, mr), spacing |-> sp, image |-> label_img,
             cells |-> {[r |-> r, c |-> c,
                         x |-> ml + c * (lw_px + sp),
                         y |-> mt + r * (lh_px + sp),
                         ix1 |-> ml + c * (lw_px + sp) + pl,
                         iy1 |-> mt + r * (lh_px + sp) + pt,
                         ix2 |-> ml + c * (lw_px + sp) + lw_px - pr,
                         iy2 |-> mt + r * (lh_px + sp) + lh_px - pb]
                        : r \in 0 .. rows - 1, c \in 0 .. cols - 1}]

\* ------------------------------------------------------------------ the script

NoDownload == [offered |-> FALSE]

code_missing_unstripped(code) == code = <<>>

\* line 348: not code_input.strip()
code_missing(code) == strip(code) = <<>>

\* lines 379-383, 411-416: the label size the tiling is given
label_mm_use(lay, img, fo) ==
    IF lay.label_mode = "Auto-fit"
    THEN compute_label_mm_from_composed(img, lay.paper_mm, lay.margins, lay.spacing_mm,
                                        lay.label_orientation, fo.tie)
    ELSE lay.label_mm

\* lines 347-360: the generate block; the session's label image after it
generate_block(clicked, code, btype, size, desc, ds, img) ==
    IF clicked /\ ~code_missing(code)
    THEN compose_label_image_wrapped(generate_symbol(btype, code, size), desc,
                                     ds.spacing, ds.font_size, ds.position)
    ELSE img

\* lines 373-399: the page preview, when the session holds a label image
preview_section(lay, img, fo) ==
    IF img = NoImage THEN NotRun
    ELSE generate_pdf_preview(img, label_mm_use(lay, img, fo), lay.paper_mm, lay.margins,
                              lay.spacing_mm, lay.padding, lay.label_orientation, 900,
                              lay.page_landscape)

\* lines 407-427: the PDF, when its button was clicked and the session holds
\* a label image
pdf_block(clicked, lay, img, fo) ==
    IF ~clicked \/ img = NoImage THEN NotRun
    ELSE generate_pdf(img, label_mm_use(lay, img, fo), lay.paper_mm, lay.margins,
                      lay.spacing_mm, lay.padding, lay.label_orientation,
                      lay.page_landscape, fo.slack)

\* lines 433-438: the download button
download_button(code, pdf) ==
    IF pdf.status = "done"
    THEN [offered |-> TRUE, file_name |-> code \o <<".", "p", "d", "f">>, data |-> pdf]
    ELSE NoDownload

\* One run of the script, top to bottom, on the widgets' current values.  An
\* exception ends the run where it is raised; the session state is kept.
Script(event, code, desc, ds, btype, size) ==
    LET clicked == event = "generate"
        rejected == clicked /\ code_missing(code)
        img == generate_block(clicked, code, btype, size, desc, ds, session_state.label_img)
        preview == preview_section(layout, img, float_outcome)
        pdf == IF preview.status \in {"none", "done"}
               THEN pdf_block(event = "pdf", layout, img, float_outcome)
               ELSE NotRun
    IN  /\ session_state' = [label_img |-> img]
        /\ run' = [event |-> event,
                   error |-> rejected,
                   success |-> clicked /\ ~rejected,
                   symbol |-> IF clicked /\ ~rejected THEN img.symbol ELSE NoImage,
                   auto_fit |-> IF img # NoImage /\ layout.label_mode = "Auto-fit"
                                THEN label_mm_use(layout, img, float_outcome)
                                ELSE <<>>,
                   preview |-> preview,
                   pdf |-> pdf,
                   download |-> download_button(code, pdf)]

\* ------------------------------------------------------------------ inputs

\* lines 84-96: three of the paper presets
Papers == {<<Mm(210), Mm(297)>>, <<Mm(26), Mm(15)>>, <<Mm(100), Mm(50)>>}

\* lines 317-318: label width and height, each at least 1 mm (default 38 x 100)
CustomLabels == {<<Mm(38), Mm(100)>>, <<Mm(18), Mm(50)>>, <<Mm(10), Mm(100)>>}

\* lines 329-330: the top and bottom margins (no minimum; default 1 mm)
MarginChoices == {Mm(1), Mm(5), Mm(100)}

\* line 342: the spacing between labels (no minimum; default 1 mm)
SpacingChoices == {Mm(1), Mm(0), 125, 0 - Mm(38), 0 - Mm(101)}

\* lines 312-342: the sidebar's defaults
DefaultLayout ==
    [label_mode |-> "Custom", label_mm |-> <<Mm(38), Mm(100)>>,
     paper_mm |-> <<Mm(210), Mm(297)>>, label_orientation |-> "Portrait",
     page_landscape |-> FALSE, margins |-> Sides(Mm(1), Mm(1), Mm(1), Mm(1)),
     padding |-> Sides(Mm(1), Mm(1), Mm(1), Mm(1)), spacing_mm |-> Mm(1)]

Layouts ==
    {[DefaultLayout EXCEPT !.label_mode = mode[1], !.label_mm = mode[2],
                           !.paper_mm = paper, !.label_orientation = o,
                           !.page_landscape = pl, !.margins.top = tb,
                           !.margins.bottom = tb, !.spacing_mm = sp]
     : mode \in ({"Custom"} \X CustomLabels) \cup {<<"Auto-fit", <<0, 0>>>>},
       paper \in Papers, o \in {"Portrait", "Landscape"}, pl \in BOOLEAN,
       tb \in MarginChoices, sp \in SpacingChoices}

\* lines 304-307: position, font size (8 to 72) and spacing (-50 to 50)
DescSettings(position, font_size, spacing) ==
    [position |-> position, font_size |-> font_size, spacing |-> spacing]

DefaultDescSettings == DescSettings("Bottom", 14, 5)

DescSettingsChoices ==
    {DefaultDescSettings, DescSettings("Right", 72, 5), DescSettings("Bottom", 72, 0 - 50)}

CodeInputs == {<<>>, <<" ">>, <<"a">>, <<"b">>}

Descriptions == {<<>>, <<"W", " ", "W", " ", "W">>, <<"a", " ", " ", "W">>}

\* Label images a session can hold: a QR symbol with the text to its right and
\* none given, a long Code128 symbol scaled down to the target width, a short
\* Code128 symbol over three lines of text.
SessionImages ==
    {compose_label_image_wrapped(generate_symbol("QR", <<"a">>, <<290, 290>>),
                                 <<>>, 6, 14, "Right"),
     compose_label_image_wrapped(generate_symbol("Code128", <<"a">>, <<3360, 280>>),
                                 <<>>, 5, 14, "Bottom"),
     compose_label_image_wrapped(generate_symbol("Code128", <<"a">>, <<318, 280>>),
                                 <<"W", " ", "W", " ", "W">>, 5, 72, "Bottom")}

FloatOutcomes ==
    {[tie |-> [w |-> t, h |-> t], slack |-> [cols |-> k, rows |-> k]]
     : t \in {0, 1}, k \in {0, 1}}

ExactFloat == [tie |-> [w |-> 0, h |-> 0], slack |-> [cols |-> 0, rows |-> 0]]

NoRun ==
    [event |-> "none", error |-> FALSE, success |-> FALSE, symbol |-> NoImage,
     auto_fit |-> <<>>, preview |-> NotRun, pdf |-> NotRun, download |-> NoDownload]

WrapChars == {"a", "W", " "}

ExampleText == <<"A", " ", "B", " ", "C", " ", "D">>

WrapTexts == SeqsUpTo(WrapChars, MaxLen) \cup {ExampleText}

Budgets == 0 .. MaxBudget

\* ------------------------------------------------------------------ actions

\* The session as the script first runs: nothing typed, nothing generated.
InitUI ==
    /\ code_input = <<>>
    /\ description_value = <<>>
    /\ desc_settings = DefaultDescSettings
    /\ barcode_type = "Code128"
    /\ layout = DefaultLayout
    /\ float_outcome = ExactFloat
    /\ session_state = [label_img |-> NoImage]
    /\ run = NoRun

InitWrapIdle ==
    /\ wrap_text = <<>>
    /\ wrap_font = 1
    /\ wrap_lines = <<>>

Init == InitUI /\ InitWrapIdle

\* The user edits the code and the script runs again.
EditCode ==
    \E c \in CodeInputs \ {code_input} :
        /\ code_input' = c
        /\ Script("edit", c, description_value, desc_settings, barcode_type, <<0, 0>>)
        /\ UNCHANGED <<description_value, desc_settings, barcode_type, layout,
                       float_outcome, wrap_vars>>

EditDescription ==
    \E d \in Descriptions \ {description_value} :
        /\ description_value' = d
        /\ Script("edit", code_input, d, desc_settings, barcode_type, <<0, 0>>)
        /\ UNCHANGED <<code_input, desc_settings, barcode_type, layout,
                       float_outcome, wrap_vars>>

ChangeDescSettings ==
    \E ds \in DescSettingsChoices \ {desc_settings} :
        /\ desc_settings' = ds
        /\ Script("edit", code_input, description_value, ds, barcode_type, <<0, 0>>)
        /\ UNCHANGED <<code_input, description_value, barcode_type, layout,
                       float_outcome, wrap_vars>>

ChangeBarcodeType ==
    \E bt \in {"Code128", "QR"} \ {barcode_type} :
        /\ barcode_type' = bt
        /\ Script("edit", code_input, description_value, desc_settings, bt, <<0, 0>>)
        /\ UNCHANGED <<code_input, description_value, desc_settings, layout,
                       float_outcome, wrap_vars>>

\* "Generate & Compose Label"
ClickGenerate ==
    \E size \in SymbolSizes(barcode_type) :
        /\ Script("generate", code_input, description_value, desc_settings,
                  barcode_type, size)
        /\ UNCHANGED <<code_input, description_value, desc_settings, barcode_type,
                       layout, float_outcome, wrap_vars>>

\* "Generate PDF"
ClickGeneratePdf ==
    /\ Script("pdf", code_input, description_value, desc_settings, barcode_type, <<0, 0>>)
    /\ UNCHANGED <<code_input, description_value, desc_settings, barcode_type,
                   layout, float_outcome, wrap_vars>>

\* Any other interaction (the download button, a widget set to the value it
\* has): the script runs again on the same values.
Rerun ==
    /\ Script("edit", code_input, description_value, desc_settings, barcode_type, <<0, 0>>)
    /\ UNCHANGED <<code_input, description_value, desc_settings, barcode_type,
                   layout, float_outcome, wrap_vars>>

Next ==
    \/ EditCode
    \/ EditDescription
    \/ ChangeDescSettings
    \/ ChangeBarcodeType
    \/ ClickGenerate
    \/ ClickGeneratePdf
    \/ Rerun

Spec == Init /\ [][Next]_vars

\* A session that holds a label image, with the page options set: the preview
\* and the PDF of every layout.
InitLayout ==
    /\ code_input = <<"a">>
    /\ description_value = <<>>
    /\ desc_settings = DefaultDescSettings
    /\ barcode_type = "Code128"
    /\ layout \in Layouts
    /\ float_outcome \in FloatOutcomes
    /\ session_state \in [label_img : SessionImages]
    /\ run = NoRun
    /\ InitWrapIdle

NextLayout ==
    \/ Rerun
    \/ ClickGeneratePdf

SpecLayout == InitLayout /\ [][NextLayout]_vars

\* wrap_text_to_width on every text, font and budget
InitWrap ==
    /\ wrap_text \in WrapTexts
    /\ wrap_font \in {1, 2}
    /\ wrap_lines = <<>>
    /\ InitUI

WrapAt ==
    \E b \in Budgets \ DOMAIN wrap_lines :
        /\ Cardinality(DOMAIN wrap_lines) < MaxRuns
        /\ wrap_lines' = [x \in DOMAIN wrap_lines \cup {b} |->
                            IF x = b THEN wrap_text_to_width(wrap_font, wrap_text, b)
                            ELSE wrap_lines[x]]
        /\ UNCHANGED <<wrap_text, wrap_font, ui_vars>>

NextWrap == WrapAt

SpecWrap == InitWrap /\ [][NextWrap]_vars

\* ------------------------------------------------------------------ wrap claims

Space == <<" ">>

\* C1: wrap_text_to_width never drops, duplicates or reorders words: the
\* returned lines joined with single spaces are the whitespace-normalized
\* input, and a text with no words returns the empty list.
C1_WrapKeepsWords ==
    \A b \in DOMAIN wrap_lines :
        /\ join(Space, wrap_lines[b]) = join(Space, split(wrap_text))
        /\ split(wrap_text) = <<>> => wrap_lines[b] = <<>>

\* A text whose normal form differs from it, wrapped into several lines.
C1_Witness ==
    \E b \in DOMAIN wrap_lines :
        /\ Len(wrap_lines[b]) >= 2
        /\ join(Space, split(wrap_text)) # wrap_text

\* C6: for a fixed text and font, the number of lines does not decrease as the
\* pixel budget decreases.
C6_LineCountMonotone ==
    \A b1 \in DOMAIN wrap_lines : \A b2 \in DOMAIN wrap_lines :
        b1 <= b2 => Len(wrap_lines[b1]) >= Len(wrap_lines[b2])

\* One text wrapped at two budgets, with more lines at the smaller one.
C6_Witness ==
    \E b1 \in DOMAIN wrap_lines : \E b2 \in DOMAIN wrap_lines :
        b1 < b2 /\ Len(wrap_lines[b1]) > Len(wrap_lines[b2])

\* C8: the wrap is greedy: a line of more than one word is within the budget
\* (only a single word may exceed it), each line after the first starts with
\* a word that did not fit on the end of the line before, and "A B C D" at a
\* budget of exactly two words per line wraps to ["A B", "C D"].
C8_Greedy ==
    \A b \in DOMAIN wrap_lines :
        LET lines == wrap_lines[b]
        IN  /\ \A i \in 1 .. Len(lines) :
                   Len(split(lines[i])) > 1 => safe_text_width(wrap_font, lines[i]) <= b
            /\ \A i \in 2 .. Len(lines) :
                   safe_text_width(wrap_font,
                                   lines[i - 1] \o Space \o split(lines[i])[1]) > b
            /\ (wrap_text = ExampleText /\ wrap_font = 1 /\ b = 3)
                   => lines = << <<"A", " ", "B">>, <<"C", " ", "D">> >>

\* The example, wrapped at the budget that fits exactly two words.
C8_Witness ==
    /\ wrap_text = ExampleText
    /\ wrap_font = 1
    /\ 3 \in DOMAIN wrap_lines
    /\ Len(wrap_lines[3]) = 2

\* ------------------------------------------------------------------ session claims

C9_PdfNamedAfterLabel ==
    run.download.offered =>
        /\ strip(run.download.data.image.symbol.data) # <<>>
        /\ run.download.file_name =
               run.download.data.image.symbol.data \o <<".", "p", "d", "f">>

\* ------------------------------------------------------------------ layout claims

\* the label and the page as the tiling orients them (lines 207-210, 254-257)
TiledLabel ==
    IF layout.label_mode = "Auto-fit" THEN run.auto_fit ELSE layout.label_mm
TiledW ==
    IF layout.label_orientation = "Landscape" THEN TiledLabel[2] ELSE TiledLabel[1]
TiledH ==
    IF layout.label_orientation = "Landscape" THEN TiledLabel[1] ELSE TiledLabel[2]
PageW == IF layout.page_landscape THEN layout.paper_mm[2] ELSE layout.paper_mm[1]
PageH == IF layout.page_landscape THEN layout.paper_mm[1] ELSE layout.paper_mm[2]
UsableW == PageW - layout.margins.left - layout.margins.right
UsableH == PageH - layout.margins.top - layout.margins.bottom

\* C2: tiling yields at least one column and one row for every positive label
\* and paper size and every margin and spacing the inputs allow: the preview
\* and the PDF both complete their grid computation with cols, rows >= 1.
C2_GridAtLeastOne ==
    /\ run.event # "none" =>
           /\ run.preview.status = "done"
           /\ run.preview.cols >= 1
           /\ run.preview.rows >= 1
    /\ run.event = "pdf" =>
           /\ run.pdf.status = "done"
           /\ run.pdf.cols >= 1
           /\ run.pdf.rows >= 1

\* C4: the PDF and the preview both place max(1, floor((usable + spacing) /
\* (label + spacing))) columns and rows, usable in millimetres, so the count
\* the preview reports is the count the PDF draws; 38 x 100 mm on A4 with
\* 1 mm margins and spacing gives 5 x 2 in both.  Stated for the spacings of
\* ordinary use, zero and above.
C4_SameGrid ==
    (run.pdf.status = "done" /\ run.preview.status = "done"
        /\ layout.spacing_mm >= 0) =>
        LET cols == Max(1, FloorDiv(UsableW + layout.spacing_mm, TiledW + layout.spacing_mm))
            rows == Max(1, FloorDiv(UsableH + layout.spacing_mm, TiledH + layout.spacing_mm))
        IN  /\ run.pdf.cols = cols /\ run.pdf.rows = rows
            /\ run.preview.cols = cols /\ run.preview.rows = rows
            /\ layout = DefaultLayout => cols = 5 /\ rows = 2

\* the axes of the paper as auto-fit takes them (lines 195-196)
PaperUsableW == layout.paper_mm[1] - layout.margins.left - layout.margins.right
PaperUsableH == layout.paper_mm[2] - layout.margins.top - layout.margins.bottom

\* the image's pixels along the label's width and height (lines 190-193)
ImageAlongW ==
    IF layout.label_orientation = "Landscape"
    THEN session_state.label_img.height ELSE session_state.label_img.width
ImageAlongH ==
    IF layout.label_orientation = "Landscape"
    THEN session_state.label_img.width ELSE session_state.label_img.height

\* C3 as stated: each axis of the auto-fit size is at most usable_axis -
\* spacing and at least 5 mm.  Stated for the layouts of ordinary use: a
\* spacing of zero or more and a positive usable area.
C3_AsStated ==
    (run.auto_fit # <<>> /\ layout.spacing_mm >= 0
        /\ PaperUsableW > 0 /\ PaperUsableH > 0) =>
        /\ run.auto_fit[1] <= PaperUsableW - layout.spacing_mm
        /\ run.auto_fit[2] <= PaperUsableH - layout.spacing_mm
        /\ run.auto_fit[1] >= Mm(5)
        /\ run.auto_fit[2] >= Mm(5)

\* C3, amended: each axis of the auto-fit size exceeds max(5 mm, usable_axis -
\* spacing) by at most the 0.05 mm of its rounding to a tenth, and is at least
\* 5 mm whenever the image spans at least 4 pixels along that axis.
C3_AutoFitBounds ==
    run.auto_fit # <<>> =>
        /\ run.auto_fit[1] <= Max(Mm(5), PaperUsableW - layout.spacing_mm) + 5
        /\ run.auto_fit[2] <= Max(Mm(5), PaperUsableH - layout.spacing_mm) + 5
        /\ ImageAlongW >= 4 => run.auto_fit[1] >= Mm(5)
        /\ ImageAlongH >= 4 => run.auto_fit[2] >= Mm(5)

\* Auto-fit on a page whose usable height less the spacing is under 5 mm: the
\* height is the floor of 5 mm, above usable - spacing.
C3_Witness ==
    /\ run.auto_fit # <<>>
    /\ PaperUsableH - layout.spacing_mm < Mm(5)
    /\ ImageAlongH >= 4
    /\ run.auto_fit[2] = Mm(5)
    /\ run.auto_fit[1] < PaperUsableW - layout.spacing_mm

PdfTop(cell) == run.pdf.pagesize[2] - (cell.y + run.pdf.label[2])

PdfCellsAt ==
    \A cell \in run.pdf.cells :
        /\ cell.x = layout.margins.left + cell.c * (TiledW + layout.spacing_mm)
        /\ PdfTop(cell) = layout.margins.top + cell.r * (TiledH + layout.spacing_mm)

PreviewCellsAt ==
    \A cell \in run.preview.cells :
        /\ cell.x = run.preview.margin.left
                      + cell.c * (run.preview.label[1] + run.preview.spacing)
        /\ cell.y = run.preview.margin.top
                      + cell.r * (run.preview.label[2] + run.preview.spacing)

\* the top edge of row r, from the page top: in the PDF and in the preview
PdfRowTop(r) == PdfTop(CHOOSE cell \in run.pdf.cells : cell.r = r /\ cell.c = 0)
PreviewRowY(r) == (CHOOSE cell \in run.preview.cells : cell.r = r /\ cell.c = 0).y

RowZeroTopmost ==
    /\ \A cell \in run.pdf.cells : PdfRowTop(0) <= PdfTop(cell)
    /\ \A cell \in run.preview.cells : PreviewRowY(0) <= cell.y

\* Each row lies on the same side of the row before it in both outputs.
SameRowOrder ==
    \A r \in 1 .. Min(run.pdf.rows, run.preview.rows) - 1 :
        PdfRowTop(r - 1) < PdfRowTop(r) <=> PreviewRowY(r - 1) < PreviewRowY(r)

\* C7 as stated: the PDF's cell (r, c) has its left edge at margin_left +
\* c * (label_w + spacing) and its top edge margin_top + r * (label_h +
\* spacing) below the page top, the offsets the preview uses, so row 0 is the
\* topmost row in both outputs.
C7_AsStated ==
    run.pdf.status = "done" => PdfCellsAt /\ PreviewCellsAt /\ RowZeroTopmost

\* C7, amended: the same offsets, so the rows are in the same order in both
\* outputs, and row 0 is the topmost row in both whenever label_h + spacing
\* is positive.
C7_SameOffsets ==
    run.pdf.status = "done" =>
        /\ PdfCellsAt
        /\ PreviewCellsAt
        /\ SameRowOrder
        /\ TiledH + layout.spacing_mm > 0 => RowZeroTopmost

\* A PDF and a preview of several rows and columns, rows growing downward.
C7_Witness ==
    /\ run.pdf.status = "done"
    /\ run.pdf.rows >= 2 /\ run.pdf.cols >= 2
    /\ run.preview.rows >= 2
    /\ TiledH + layout.spacing_mm > 0

\* C10: in Auto-fit mode, when each usable page axis less the spacing is at
\* least 5 mm, the label as the PDF and the preview tile it fits inside the
\* usable area of the page as oriented.  Stated for the spacings of ordinary
\* use, zero and above.
C10_AutoFitLabelFits ==
    ( /\ layout.label_mode = "Auto-fit"
      /\ layout.spacing_mm >= 0
      /\ PaperUsableW - layout.spacing_mm >= Mm(5)
      /\ PaperUsableH - layout.spacing_mm >= Mm(5)
      /\ UsableW - layout.spacing_mm >= Mm(5)
      /\ UsableH - layout.spacing_mm >= Mm(5) ) =>
        /\ run.pdf.status = "done" =>
               /\ run.pdf.label[1] <= UsableW
               /\ run.pdf.label[2] <= UsableH
        /\ run.preview.status = "done" => TiledW <= UsableW /\ TiledH <= UsableH

====
